---------------------------- MODULE Spec2Model ----------------------------
(***************************************************************************)
(* Finite-difference gradient descent (findi): the epoch engine of         *)
(* src/findi/_python_findi.py and src/findi/_numba_findi.py.               *)
(*                                                                         *)
(* Arrays are functions over 0-based index ranges, as in the source.  A    *)
(* row obtained by `parameters[epoch]` is a numpy VIEW: a write through it *)
(* is a write into `parameters`.  Numbers are integers; the objective is a *)
(* polynomial with even values, so every quotient by a step of 1 or 2 that *)
(* the code forms is exact and `\div` is the code's `/`.                   *)
(***************************************************************************)
EXTENDS Integers, Sequences, FiniteSets, TLC

\* ------------------------------------------------------------------ bounds
NParams == 2
MaxEpochs == 2
MaxThreads == 2
\* A run is followed while the base point of its epoch is within MaxAbs in
\* every coordinate (the model's integers are bounded).
MaxAbs == 10000

n_outputs == 2

Coords == 0 .. (NParams - 1)
Channels == 0 .. (n_outputs - 1)
StepValues == {1, 2}
RateValues == {1, 2}
MomentumValues == {0, 1}
InitialValues == {0, 5}

\* ------------------------------------------------------------- array helpers
Empty == [i \in {} |-> 0]
Size(f) == Cardinality(DOMAIN f)
Last(f) == f[Size(f) - 1]
Zeros(n) == [i \in 0 .. (n - 1) |-> 0]
ZeroMatrix(r, c) == [i \in 0 .. (r - 1) |-> Zeros(c)]
Range(f) == {f[i] : i \in DOMAIN f}
Extend(f, v) == [i \in 0 .. Size(f) |-> IF i = Size(f) THEN v ELSE f[i]]
\* a[lo:hi]
Slice(a, lo, hi) == [i \in 0 .. (hi - lo - 1) |-> a[lo + i]]
VecAdd(a, b) == [i \in DOMAIN a |-> a[i] + b[i]]

RECURSIVE SumTo(_, _)
SumTo(f, k) == IF k < 0 THEN 0 ELSE f[k] + SumTo(f, k - 1)
Sum(f) == SumTo(f, Size(f) - 1)

\* ---------------------------------------------------------------- objective
\* The test suite's objective (two outputs; channel 0 is minimised), with
\* channel 0 doubled so that its values are even.
Offset(i) == ((i + 1) % 3) + 1
Objective(p) ==
    [c \in Channels |->
        IF c = 0
        THEN 2 * Sum([i \in DOMAIN p |-> (p[i] + Offset(i)) * (p[i] + Offset(i))])
        ELSE Sum(p)]

\* ------------------------------------------------------------------ numpy
\* np.append(a, b) with no axis: both operands are flattened (row-major)
\* and joined into one 1-D array.
Ravel(m) ==
    IF Size(m) = 0 THEN Empty
    ELSE LET w == Size(m[0])
         IN [k \in 0 .. (Size(m) * w - 1) |-> m[k \div w][k % w]]
np_append(a, b) ==
    LET fa == Ravel(a)
        fb == Ravel(b)
    IN [k \in 0 .. (Size(fa) + Size(fb) - 1) |->
            IF k < Size(fa) THEN fa[k] ELSE fb[k - Size(fa)]]
\* np.reshape(v, newshape=[-1, 1]): one column, one row per element.
np_reshape(v) == [k \in DOMAIN v |-> [j \in {0} |-> v[k]]]
\* np.unique(a).shape[0] != a.shape[0]
HasDuplicates(a) == Cardinality(Range(a)) # Size(a)

\* ----------------------------------------------------------- update rule
\* The velocity `_update` computes.  It is a local of `_update`: the caller's
\* `velocity` is not rebound by the call.
_update_velocity(rate, difference_objective, out0, difference, momentum, velocity) ==
    [i \in Coords |->
        momentum * velocity[i]
        - (rate * (difference_objective[i] - out0)) \div difference]

_update(rate, difference_objective, outputs, difference, momentum, velocity, epoch, parameters) ==
    VecAdd(parameters[epoch],
           _update_velocity(rate, difference_objective, outputs[epoch][0],
                            difference, momentum, velocity))

\* ------------------------------------------------- sequential evaluation
\* `current_parameters = parameters[epoch]` is a view of the row, so the
\* increment is written into the row itself.
Perturb(row, parameter, difference) ==
    [row EXCEPT ![parameter] = @ + difference]

\* One iteration of `for parameter in range(n_parameters)` of full descent:
\* the row after the write, and difference_objective after the evaluation.
SeqBody(row, difference_objective, parameter, difference) ==
    LET current_parameters == Perturb(row, parameter, difference)
    IN [row |-> current_parameters,
        point |-> current_parameters,
        difference_objective |->
            [difference_objective EXCEPT
                ![parameter] = Objective(current_parameters)[0]]]

\* The same iteration of partial descent: `if parameter in param_idx`.
PartialSeqBody(row, difference_objective, out0, param_idx, parameter, difference) ==
    IF parameter \in Range(param_idx)
    THEN SeqBody(row, difference_objective, parameter, difference)
    ELSE [row |-> row,
          point |-> Empty,
          difference_objective |->
            [difference_objective EXCEPT ![parameter] = out0]]

\* --------------------------------------------------- parallel evaluation
\* Rows 0 .. n_parameters of `current_parameters`: row 0 is the base, row
\* parameter + 1 a copy of the base with coordinate `parameter` incremented.
BuildCurrent(row, difference) ==
    [k \in 0 .. NParams |->
        IF k = 0 THEN row
        ELSE [row EXCEPT ![k - 1] = row[k - 1] + difference]]

PartialBuildCurrent(row, difference, param_idx) ==
    [k \in 0 .. NParams |->
        IF k # 0 /\ (k - 1) \in Range(param_idx)
        THEN [row EXCEPT ![k - 1] = row[k - 1] + difference]
        ELSE row]

\* The points handed to the pool, in submission order.
Submitted(current_parameters) == current_parameters

\* current_parameters[np.append(np.array([0]), np.add(param_idx, 1))]
PartialSubmitted(current_parameters, param_idx) ==
    [k \in 0 .. Size(param_idx) |->
        IF k = 0 THEN current_parameters[0]
        ELSE current_parameters[param_idx[k - 1] + 1]]

\* difference_objective from the pool's results (indexed by submission).
Scatter(parallel_outputs) ==
    [i \in Coords |-> parallel_outputs[i + 1][0]]

\* np.full(n_parameters, parallel_outputs[0][0]), then the assignment
\* difference_objective[param_idx] = [...]: with a repeated index the last
\* assignment stands.
PartialScatter(parallel_outputs, param_idx) ==
    [i \in Coords |->
        IF i \in Range(param_idx)
        THEN LET last == CHOOSE k \in DOMAIN param_idx :
                            /\ param_idx[k] = i
                            /\ \A m \in DOMAIN param_idx :
                                   param_idx[m] = i => m <= k
             IN parallel_outputs[last + 1][0]
        ELSE parallel_outputs[0][0]]

\* ------------------------------------------------------ compiled backend
\* The update the epoch functions of the compiled backend compute inline.
\* `velocity` is a by-value argument of the epoch function: its rebinding
\* does not reach `_numba_descent`.
numba_velocity(rate, difference_objective, out0, difference, momentum, velocity) ==
    [i \in Coords |->
        momentum * velocity[i]
        - (rate * (difference_objective[i] - out0)) \div difference]

\* Number of iterations of the prange loop of an epoch.
PrangeIterations(fn, parameters_used) ==
    IF fn = "partial_descent" THEN parameters_used ELSE NParams

\* ------------------------------------------------------------------ state
VARIABLES
    args,                   \* arguments of the public call
    call,                   \* arguments of the descent function now running
    pc,                     \* position in the running function
    epoch,                  \* loop variable of `for epoch, (rate, difference)`
    parameter,              \* loop variable of `for parameter in range(...)`
    parameters,             \* np.zeros([epochs + 1, n_parameters])
    outputs,                \* np.zeros([epochs, n_outputs])
    difference_objective,
    velocity,               \* the driver's `velocity = 0` (broadcast)
    param_idx,
    current_parameters,     \* the (n_parameters + 1) x n_parameters work array
    submitted,              \* points handed to the worker pool
    parallel_outputs,       \* results, indexed by submission
    pending,                \* pool tasks / prange iterations not yet finished
    written,                \* prange iterations that have done their write
    out,                    \* compiled backend: np.zeros((n_parameters, n_outputs))
    outputs_p,
    parameters_p,
    ret,                    \* the value returned to the caller
    log,                    \* history of the running function (observation only)
    log_p                   \* history of the finished partial phase

vars == <<args, call, pc, epoch, parameter, parameters, outputs,
          difference_objective, velocity, param_idx, current_parameters,
          submitted, parallel_outputs, pending, written, out, outputs_p,
          parameters_p, ret, log, log_p>>

\* ----------------------------------------------------------------- inputs
Schedules(values) ==
    UNION {[0 .. (n - 1) -> values] : n \in 1 .. MaxEpochs}

ValidArgs(a) ==
    /\ DOMAIN a.h = 0 .. (a.epochs - 1)
    /\ DOMAIN a.l = 0 .. (a.epochs - 1)
    /\ a.backend = "numba" => a.threads = 1
    /\ a.fn = "descent" => a.parameters_used = NParams
    /\ a.fn = "partially_partial_descent" <=>
            (0 < a.partial_epochs /\ a.partial_epochs < a.epochs)
    /\ a.fn # "partially_partial_descent" => a.partial_epochs = 0

Args ==
    {a \in [fn : {"descent", "partial_descent", "partially_partial_descent"},
            backend : {"python", "numba"},
            threads : {1, MaxThreads},
            initial : [Coords -> InitialValues],
            h : Schedules(StepValues),
            l : Schedules(RateValues),
            epochs : 1 .. MaxEpochs,
            momentum : MomentumValues,
            parameters_used : 1 .. NParams,
            partial_epochs : 0 .. (MaxEpochs - 1)] : ValidArgs(a)}

\* A generator called with high = parameters_used - 1: too few values for
\* parameters_used distinct indices.
DrawsBelowUsed(parameters_used) ==
    [0 .. (parameters_used - 1) -> 0 .. (parameters_used - 2)]

Draws(parameters_used) == [0 .. (parameters_used - 1) -> Coords]

NoCall == [fn |-> "none", initial |-> Empty, h |-> Empty, l |-> Empty, epochs |-> 0]
EmptyLog == [base |-> Empty, points |-> Empty, grad |-> Empty,
             vel |-> Empty, drawn |-> Empty, from |-> Empty, next |-> Empty,
             fresh |-> Empty, redrawn |-> FALSE]

IsPartial == call.fn = "partial_descent"
IsPhased == args.fn = "partially_partial_descent"
IsNumba == args.backend = "numba"
IsSequential == args.backend = "python" /\ args.threads = 1
IsParallel == args.backend = "python" /\ args.threads > 1

\* Where an epoch of the running function begins.
FirstStep(fn) ==
    IF fn = "partial_descent" THEN "draw"
    ELSE IF IsParallel THEN "submit"
    ELSE "base"

Init ==
    /\ args \in Args
    /\ call = NoCall
    /\ pc = "call"
    /\ epoch = 0
    /\ parameter = 0
    /\ parameters = Empty
    /\ outputs = Empty
    /\ difference_objective = Empty
    /\ velocity = Empty
    /\ param_idx = Empty
    /\ current_parameters = Empty
    /\ submitted = Empty
    /\ parallel_outputs = Empty
    /\ pending = {}
    /\ written = {}
    /\ out = Empty
    /\ outputs_p = Empty
    /\ parameters_p = Empty
    /\ ret = [outputs |-> Empty, parameters |-> Empty]
    /\ log = EmptyLog
    /\ log_p = EmptyLog

\* The allocations at the head of a descent function.
Setup(c) ==
    /\ parameters' = [e \in 0 .. c.epochs |->
                        IF e = 0 THEN c.initial ELSE Zeros(NParams)]
    /\ outputs' = ZeroMatrix(c.epochs, n_outputs)
    /\ difference_objective' = Zeros(NParams)
    /\ velocity' = Zeros(NParams)
    /\ out' = IF IsNumba THEN ZeroMatrix(NParams, n_outputs) ELSE Empty
    /\ current_parameters' =
            IF IsParallel THEN ZeroMatrix(NParams + 1, NParams) ELSE Empty
    /\ param_idx' = IF IsNumba /\ c.fn = "partial_descent"
                    THEN Zeros(args.parameters_used) ELSE Empty
    /\ epoch' = 0
    /\ parameter' = 0
    /\ submitted' = Empty
    /\ parallel_outputs' = Empty
    /\ pending' = {}
    /\ written' = {}
    /\ log' = EmptyLog
    /\ pc' = FirstStep(c.fn)

Evaluable(p) == \A i \in DOMAIN p : -MaxAbs <= p[i] /\ p[i] <= MaxAbs

\* ---------------------------------------------------------------- history
LogBase(lg, base, idx) ==
    [lg EXCEPT !.base = Extend(@, base),
               !.points = Extend(@, [i \in Coords |-> Empty]),
               !.drawn = Extend(@, idx),
               !.fresh = Extend(@, lg.redrawn),
               !.redrawn = FALSE]
\* param_idx has been taken from the generator in this epoch.
LogDraw(lg) == [lg EXCEPT !.redrawn = TRUE]
LogPoint(lg, e, i, point) == [lg EXCEPT !.points[e][i] = point]
LogUpdate(lg, grad, vel, from, next) ==
    [lg EXCEPT !.grad = Extend(@, grad), !.vel = Extend(@, vel),
               !.from = Extend(@, from), !.next = Extend(@, next)]

\* The forward-difference quotient the update divides out.
Gradient(dobj, out0, difference) ==
    [i \in Coords |-> (dobj[i] - out0) \div difference]

\* ---------------------------------------------------------------- actions
\* The public function is entered; the phased variant first calls partial
\* descent on the first partial_epochs schedule entries.
Enter ==
    /\ pc = "call"
    /\ call' = IF IsPhased
               THEN [fn |-> "partial_descent",
                     initial |-> args.initial,
                     h |-> Slice(args.h, 0, args.partial_epochs),
                     l |-> Slice(args.l, 0, args.partial_epochs),
                     epochs |-> args.partial_epochs]
               ELSE [fn |-> args.fn, initial |-> args.initial,
                     h |-> args.h, l |-> args.l, epochs |-> args.epochs]
    /\ Setup(call')
    /\ UNCHANGED <<args, outputs_p, parameters_p, ret, log_p>>

\* rng.integers(low=0, high=n_parameters, size=parameters_used)
Draw ==
    /\ pc = "draw"
    /\ ~IsNumba
    /\ \E d \in Draws(args.parameters_used) : param_idx' = d
    /\ pc' = IF IsParallel THEN "submit" ELSE "base"
    /\ log' = LogDraw(log)
    /\ UNCHANGED <<args, call, epoch, parameter, parameters, outputs,
                   difference_objective, velocity, current_parameters,
                   submitted, parallel_outputs, pending, written, out,
                   outputs_p, parameters_p, ret, log_p>>

\* One pass of `while np.unique(param_idx).shape[0] != param_idx.shape[0]`.
NumbaRedraw ==
    /\ pc = "draw"
    /\ IsNumba
    /\ HasDuplicates(param_idx)
    /\ \E d \in Draws(args.parameters_used) : param_idx' = d
    /\ log' = LogDraw(log)
    /\ UNCHANGED <<args, call, pc, epoch, parameter, parameters, outputs,
                   difference_objective, velocity, current_parameters,
                   submitted, parallel_outputs, pending, written, out,
                   outputs_p, parameters_p, ret, log_p>>

\* outputs[epoch] = objective(parameters[epoch]) on the driving thread.
EvalBase ==
    /\ IF pc = "draw" THEN IsNumba /\ ~HasDuplicates(param_idx) ELSE pc = "base"
    /\ Evaluable(parameters[epoch])
    /\ outputs' = [outputs EXCEPT ![epoch] = Objective(parameters[epoch])]
    /\ log' = LogBase(log, parameters[epoch], param_idx)
    /\ parameter' = 0
    /\ IF IsNumba
       THEN /\ pc' = "prange"
            /\ pending' = 0 .. (PrangeIterations(call.fn, args.parameters_used) - 1)
            /\ difference_objective' =
                    IF IsPartial
                    THEN [i \in Coords |-> outputs'[epoch][0]]
                    ELSE difference_objective
       ELSE /\ pc' = "loop"
            /\ UNCHANGED <<pending, difference_objective>>
    /\ written' = {}
    /\ UNCHANGED <<args, call, epoch, parameters, velocity, param_idx,
                   current_parameters, submitted, parallel_outputs, out,
                   outputs_p, parameters_p, ret, log_p>>

\* One iteration of the sequential loop over the coordinates.
SeqEval ==
    /\ pc = "loop"
    /\ LET b == IF IsPartial
                THEN PartialSeqBody(parameters[epoch], difference_objective,
                                    outputs[epoch][0], param_idx, parameter,
                                    call.h[epoch])
                ELSE SeqBody(parameters[epoch], difference_objective,
                             parameter, call.h[epoch])
       IN /\ parameters' = [parameters EXCEPT ![epoch] = b.row]
          /\ difference_objective' = b.difference_objective
          /\ log' = LogPoint(log, epoch, parameter, b.point)
    /\ parameter' = parameter + 1
    /\ pc' = IF parameter + 1 = NParams THEN "update" ELSE "loop"
    /\ UNCHANGED <<args, call, epoch, outputs, velocity, param_idx,
                   current_parameters, submitted, parallel_outputs, pending,
                   written, out, outputs_p, parameters_p, ret, log_p>>

\* The epoch's points are built and handed to the worker pool together.
Submit ==
    /\ pc = "submit"
    /\ Evaluable(parameters[epoch])
    /\ current_parameters' =
            IF IsPartial
            THEN PartialBuildCurrent(parameters[epoch], call.h[epoch], param_idx)
            ELSE BuildCurrent(parameters[epoch], call.h[epoch])
    /\ submitted' =
            IF IsPartial
            THEN PartialSubmitted(current_parameters', param_idx)
            ELSE Submitted(current_parameters')
    /\ pending' = DOMAIN submitted'
    /\ parallel_outputs' = [k \in DOMAIN submitted' |-> Zeros(n_outputs)]
    /\ log' = LogBase(log, parameters[epoch], param_idx)
    /\ pc' = "wait"
    /\ UNCHANGED <<args, call, epoch, parameter, parameters, outputs,
                   difference_objective, velocity, param_idx, written, out,
                   outputs_p, parameters_p, ret, log_p>>

\* A pool whose results come back in completion order: the task of
\* submission index k stores its result in the first free slot.
WorkerByCompletion(k) ==
    /\ pc = "wait"
    /\ k \in pending
    /\ parallel_outputs' =
            [parallel_outputs EXCEPT
                ![Size(submitted) - Cardinality(pending)] = Objective(submitted[k])]
    /\ pending' = pending \ {k}
    /\ log' = IF k = 0 THEN log
              ELSE LogPoint(log, epoch,
                            IF IsPartial THEN param_idx[k - 1] ELSE k - 1,
                            submitted[k])
    /\ UNCHANGED <<args, call, pc, epoch, parameter, parameters, outputs,
                   difference_objective, velocity, param_idx,
                   current_parameters, submitted, written, out, outputs_p,
                   parameters_p, ret, log_p>>

\* A pool worker finishes the task of submission index k.
Worker(k) ==
    /\ pc = "wait"
    /\ k \in pending
    /\ parallel_outputs' = [parallel_outputs EXCEPT ![k] = Objective(submitted[k])]
    /\ pending' = pending \ {k}
    /\ log' = IF k = 0 THEN log
              ELSE LogPoint(log, epoch,
                            IF IsPartial THEN param_idx[k - 1] ELSE k - 1,
                            submitted[k])
    /\ UNCHANGED <<args, call, pc, epoch, parameter, parameters, outputs,
                   difference_objective, velocity, param_idx,
                   current_parameters, submitted, written, out, outputs_p,
                   parameters_p, ret, log_p>>

\* A collection that does not wait for the pool: the results present so far
\* are scattered as soon as any task has finished.
CollectEarly ==
    /\ pc = "wait"
    /\ pending # DOMAIN submitted
    /\ outputs' = [outputs EXCEPT ![epoch] = parallel_outputs[0]]
    /\ difference_objective' =
            IF IsPartial
            THEN PartialScatter(parallel_outputs, param_idx)
            ELSE Scatter(parallel_outputs)
    /\ pc' = "update"
    /\ UNCHANGED <<args, call, epoch, parameter, parameters, velocity,
                   param_idx, current_parameters, submitted, parallel_outputs,
                   pending, written, out, outputs_p, parameters_p, ret, log,
                   log_p>>

\* Parallel(...) returns once every task has finished; the results are
\* scattered by submission index.
Collect ==
    /\ pc = "wait"
    /\ pending = {}
    /\ outputs' = [outputs EXCEPT ![epoch] = parallel_outputs[0]]
    /\ difference_objective' =
            IF IsPartial
            THEN PartialScatter(parallel_outputs, param_idx)
            ELSE Scatter(parallel_outputs)
    /\ pc' = "update"
    /\ UNCHANGED <<args, call, epoch, parameter, parameters, velocity,
                   param_idx, current_parameters, submitted, parallel_outputs,
                   pending, written, out, outputs_p, parameters_p, ret, log,
                   log_p>>

\* prange iteration i: current_parameters = parameters[epoch] (a view) and
\* the write of its own coordinate.
NumbaWrite(i) ==
    /\ pc = "prange"
    /\ i \in pending \ written
    /\ parameters' = [parameters EXCEPT ![epoch] = Perturb(@, i, call.h[epoch])]
    /\ written' = written \cup {i}
    /\ UNCHANGED <<args, call, pc, epoch, parameter, outputs,
                   difference_objective, velocity, param_idx,
                   current_parameters, submitted, parallel_outputs, pending,
                   out, outputs_p, parameters_p, ret, log, log_p>>

\* prange iteration i: out[parameter] = objective(current_parameters), read
\* through the view while other iterations may have written the row.
NumbaEval(i) ==
    /\ pc = "prange"
    /\ i \in pending \cap written
    /\ out' = [out EXCEPT ![i] = Objective(parameters[epoch])]
    /\ pending' = pending \ {i}
    /\ log' = LogPoint(log, epoch, i, parameters[epoch])
    /\ UNCHANGED <<args, call, pc, epoch, parameter, parameters, outputs,
                   difference_objective, velocity, param_idx,
                   current_parameters, submitted, parallel_outputs, written,
                   outputs_p, parameters_p, ret, log_p>>

\* The parallel loop has joined: difference_objective = out[:, 0].
NumbaJoin ==
    /\ pc = "prange"
    /\ pending = {}
    /\ difference_objective' = [i \in Coords |-> out[i][0]]
    /\ pc' = "update"
    /\ UNCHANGED <<args, call, epoch, parameter, parameters, outputs, velocity,
                   param_idx, current_parameters, submitted, parallel_outputs,
                   pending, written, out, outputs_p, parameters_p, ret, log,
                   log_p>>

\* parameters[epoch + 1] is written and the loop goes to the next epoch.
DoUpdate ==
    /\ pc = "update"
    /\ LET rate == call.l[epoch]
           difference == call.h[epoch]
           vel == IF IsNumba
                  THEN numba_velocity(rate, difference_objective,
                                      outputs[epoch][0], difference,
                                      args.momentum, velocity)
                  ELSE _update_velocity(rate, difference_objective,
                                        outputs[epoch][0], difference,
                                        args.momentum, velocity)
           next == IF IsNumba
                   THEN VecAdd(parameters[epoch], vel)
                   ELSE _update(rate, difference_objective, outputs, difference,
                                args.momentum, velocity, epoch, parameters)
       IN /\ parameters' = [parameters EXCEPT ![epoch + 1] = next]
          /\ log' = LogUpdate(log,
                              Gradient(difference_objective, outputs[epoch][0],
                                       difference),
                              vel, parameters[epoch], next)
    /\ epoch' = epoch + 1
    /\ pc' = IF epoch + 1 < call.epochs THEN FirstStep(call.fn) ELSE "return"
    /\ param_idx' = IF IsNumba /\ IsPartial /\ epoch + 1 < call.epochs
                    THEN Zeros(args.parameters_used) ELSE param_idx
    /\ UNCHANGED <<args, call, parameter, outputs, difference_objective,
                   velocity, current_parameters, submitted, parallel_outputs,
                   pending, written, out, outputs_p, parameters_p, ret, log_p>>

\* return outputs, parameters[:-1]
Returned == [outputs |-> outputs,
             parameters |-> Slice(parameters, 0, call.epochs)]

Return ==
    /\ pc = "return"
    /\ ~IsPhased
    /\ ret' = Returned
    /\ pc' = "done"
    /\ UNCHANGED <<args, call, epoch, parameter, parameters, outputs,
                   difference_objective, velocity, param_idx,
                   current_parameters, submitted, parallel_outputs, pending,
                   written, out, outputs_p, parameters_p, log, log_p>>

\* The partial phase returns into the phased function, which calls full
\* descent with initial = parameters_p[-1] and the remaining schedule.
ReturnPartialPhase ==
    /\ pc = "return"
    /\ IsPhased
    /\ IsPartial
    /\ outputs_p' = Returned.outputs
    /\ parameters_p' = Returned.parameters
    /\ log_p' = log
    /\ call' = [fn |-> "descent",
                initial |-> parameters_p'[Size(parameters_p') - 1],
                h |-> Slice(args.h, args.partial_epochs, args.epochs),
                l |-> Slice(args.l, args.partial_epochs, args.epochs),
                epochs |-> args.epochs - args.partial_epochs]
    /\ Setup(call')
    /\ UNCHANGED <<args, ret>>

\* The full phase returns; np.append without an axis and the reshape to
\* one column produce the phased function's result.
ReturnPhased ==
    /\ pc = "return"
    /\ IsPhased
    /\ ~IsPartial
    /\ ret' = [outputs |-> np_reshape(np_append(outputs_p, Returned.outputs)),
               parameters |-> np_reshape(np_append(parameters_p, Returned.parameters))]
    /\ pc' = "done"
    /\ UNCHANGED <<args, call, epoch, parameter, parameters, outputs,
                   difference_objective, velocity, param_idx,
                   current_parameters, submitted, parallel_outputs, pending,
                   written, out, outputs_p, parameters_p, log, log_p>>

Next ==
    \/ Enter
    \/ Draw
    \/ NumbaRedraw
    \/ EvalBase
    \/ SeqEval
    \/ Submit
    \/ \E k \in 0 .. NParams : Worker(k)
    \/ Collect
    \/ \E i \in Coords : NumbaWrite(i)
    \/ \E i \in Coords : NumbaEval(i)
    \/ NumbaJoin
    \/ DoUpdate
    \/ Return
    \/ ReturnPartialPhase
    \/ ReturnPhased

Spec == Init /\ [][Next]_vars

\* Every quotient the update forms is exact.
QuotientsExact ==
    pc = "update" =>
        \A i \in Coords :
            (call.l[epoch] * (difference_objective[i] - outputs[epoch][0]))
                % call.h[epoch] = 0

\* ------------------------------------------------- whole runs as functions
\* The loop over the coordinates, from `parameter` on.
RECURSIVE SeqLoop(_, _, _, _, _, _, _)
SeqLoop(fn, row, dobj, out0, idx, k, difference) ==
    IF k = NParams
    THEN [row |-> row, difference_objective |-> dobj]
    ELSE LET b == IF fn = "partial_descent"
                  THEN PartialSeqBody(row, dobj, out0, idx, k, difference)
                  ELSE SeqBody(row, dobj, k, difference)
         IN SeqLoop(fn, b.row, b.difference_objective, out0, idx, k + 1,
                    difference)

\* One epoch of the sequential strategy from base row `row`: the output
\* recorded, the row as the epoch leaves it, and the next row.
SeqEpoch(fn, row, rate, difference, momentum, idx) ==
    LET output == Objective(row)
        loop == SeqLoop(fn, row, Zeros(NParams), output[0], idx, 0, difference)
    IN [output |-> output,
        row |-> loop.row,
        next |-> _update(rate, loop.difference_objective,
                         [e \in {0} |-> output], difference, momentum,
                         Zeros(NParams), 0, [e \in {0} |-> loop.row])]

\* One epoch of the parallel strategy.
ParEpoch(fn, row, rate, difference, momentum, idx) ==
    LET current == IF fn = "partial_descent"
                   THEN PartialBuildCurrent(row, difference, idx)
                   ELSE BuildCurrent(row, difference)
        points == IF fn = "partial_descent"
                  THEN PartialSubmitted(current, idx)
                  ELSE Submitted(current)
        results == [k \in DOMAIN points |-> Objective(points[k])]
        dobj == IF fn = "partial_descent"
                THEN PartialScatter(results, idx)
                ELSE Scatter(results)
    IN [output |-> results[0],
        row |-> row,
        next |-> _update(rate, dobj, [e \in {0} |-> results[0]], difference,
                         momentum, Zeros(NParams), 0, [e \in {0} |-> row])]

\* The epoch loop from epoch e with base row `row`; `draws[e]` is the value
\* of param_idx the generator yields in epoch e.
RECURSIVE RunFrom(_, _, _, _, _, _, _, _, _, _)
RunFrom(fn, threads, row, h, l, epochs, momentum, draws, e, acc) ==
    IF e = epochs THEN acc
    ELSE LET idx == IF fn = "partial_descent" THEN draws[e] ELSE Empty
             ep == IF threads = 1
                   THEN SeqEpoch(fn, row, l[e], h[e], momentum, idx)
                   ELSE ParEpoch(fn, row, l[e], h[e], momentum, idx)
         IN RunFrom(fn, threads, ep.next, h, l, epochs, momentum, draws, e + 1,
                    [outputs |-> Extend(acc.outputs, ep.output),
                     parameters |-> Extend(acc.parameters, ep.row)])

_python_descent(initial, h, l, epochs, momentum, threads) ==
    RunFrom("descent", threads, initial, h, l, epochs, momentum, Empty, 0,
            [outputs |-> Empty, parameters |-> Empty])

_python_partial_descent(initial, h, l, epochs, momentum, threads, draws) ==
    RunFrom("partial_descent", threads, initial, h, l, epochs, momentum, draws,
            0, [outputs |-> Empty, parameters |-> Empty])

\* The stepwise run and the run as a function agree.
RunAgrees ==
    (pc = "done" /\ ~IsPhased /\ ~IsNumba) =>
        ret = IF args.fn = "descent"
              THEN _python_descent(args.initial, args.h, args.l, args.epochs,
                                   args.momentum, args.threads)
              ELSE _python_partial_descent(args.initial, args.h, args.l,
                                           args.epochs, args.momentum,
                                           args.threads, log.drawn)

\* ----------------------------------------------------------------- claims
InRun == pc \notin {"call", "done"}
Completed == pc = "done" /\ ~IsPhased
OtherThreads == IF args.threads = 1 THEN MaxThreads ELSE 1

\* C1: in every descent run of the interpreted backend (threads = 1 or
\* threads > 1), row 0 of the parameter trajectory is the caller's initial
\* vector at every step of the run (no evaluation or update changes the
\* recorded row) and in the trajectory returned.
C1_RowZeroIsInitial ==
    ~IsNumba =>
        /\ InRun => parameters[0] = call.initial
        /\ Completed => ret.parameters[0] = args.initial

\* C2: a completed full or partial descent returns the trajectories that
\* the other evaluation strategy (threads = 1 against threads > 1) returns
\* on the same inputs and the same generator draws.
C2_SequentialEqualsParallel ==
    (Completed /\ ~IsNumba) =>
        ret = IF args.fn = "descent"
              THEN _python_descent(args.initial, args.h, args.l, args.epochs,
                                   args.momentum, OtherThreads)
              ELSE _python_partial_descent(args.initial, args.h, args.l,
                                           args.epochs, args.momentum,
                                           OtherThreads, log.drawn)

\* C3: every point evaluated for a coordinate i in epoch e is the epoch's
\* base vector with coordinate i alone incremented by h[e], and the gradient
\* estimate of i is (f_i - f(base)) / h[e].
C3_ForwardDifference ==
    InRun =>
        \A e \in DOMAIN log.points : \A i \in Coords :
            log.points[e][i] # Empty =>
                /\ log.points[e][i] =
                        [log.base[e] EXCEPT ![i] = @ + call.h[e]]
                /\ e \in DOMAIN log.grad =>
                        log.grad[e][i] =
                            (Objective(log.points[e][i])[0]
                             - Objective(log.base[e])[0]) \div call.h[e]

\* C4: the velocity that forms parameters[e + 1] is momentum times the
\* velocity of epoch e - 1 (zero before epoch 0) minus rate[e] times the
\* gradient estimate of epoch e, and the update writes parameters[e] plus
\* that velocity into parameters[e + 1].
C4_VelocityCarried ==
    InRun =>
        \A e \in DOMAIN log.vel :
            /\ log.vel[e] =
                    [i \in Coords |->
                        args.momentum * (IF e = 0 THEN 0 ELSE log.vel[e - 1][i])
                        - call.l[e] * log.grad[e][i]]
            /\ log.next[e] = VecAdd(log.from[e], log.vel[e])

\* C5: in every epoch of a partial descent the subset used holds exactly
\* parameters_used pairwise distinct indices, each in [0, n_parameters).
C5_DistinctSubset ==
    (InRun /\ IsPartial) =>
        \A e \in DOMAIN log.drawn :
            /\ Size(log.drawn[e]) = args.parameters_used
            /\ ~HasDuplicates(log.drawn[e])
            /\ Range(log.drawn[e]) \subseteq Coords

\* C6: partial descent with parameters_used = n_parameters returns the
\* trajectories of full descent on the same inputs.
C6_PartialAllEqualsFull ==
    (Completed /\ ~IsNumba /\ args.fn = "partial_descent"
        /\ args.parameters_used = NParams) =>
        ret = _python_descent(args.initial, args.h, args.l, args.epochs,
                              args.momentum, args.threads)

\* C7: both returned trajectories have `epochs` rows, and row e of the
\* outputs is the objective at row e of the returned parameters.
C7_RowsAligned ==
    Completed =>
        /\ Size(ret.outputs) = args.epochs
        /\ Size(ret.parameters) = args.epochs
        /\ \A e \in DOMAIN ret.outputs :
                ret.outputs[e] = Objective(ret.parameters[e])

\* C8: a phased run returns total_epochs rows of outputs, each n_outputs
\* wide, and total_epochs rows of parameters, each n_parameters wide.
C8_PhasedShape ==
    (pc = "done" /\ IsPhased) =>
        /\ Size(ret.outputs) = args.epochs
        /\ Size(ret.parameters) = args.epochs
        /\ \A e \in DOMAIN ret.outputs : Size(ret.outputs[e]) = n_outputs
        /\ \A e \in DOMAIN ret.parameters : Size(ret.parameters[e]) = NParams

\* C9: the full phase of a phased run (interpreted backend) starts from the
\* state the partial phase's last update produced (its first output is the
\* objective there), not from the partial phase's last returned row.
C9_NoRepeatedRow ==
    (IsPhased /\ ~IsNumba /\ call.fn = "descent") =>
        /\ call.initial = Last(log_p.next)
        /\ 0 \in DOMAIN log.base =>
                /\ log.base[0] = Last(log_p.next)
                /\ log.base[0] # parameters_p[args.partial_epochs - 1]

\* C10: the first partial_epochs rows a phased run returns are the
\* trajectories of a standalone partial descent of partial_epochs epochs on
\* the same initial vector, schedule prefix, momentum and draws.
C10_PhasedPrefix ==
    (pc = "done" /\ IsPhased /\ ~IsNumba) =>
        LET alone == _python_partial_descent(
                        args.initial,
                        Slice(args.h, 0, args.partial_epochs),
                        Slice(args.l, 0, args.partial_epochs),
                        args.partial_epochs, args.momentum, args.threads,
                        log_p.drawn)
        IN /\ Slice(ret.outputs, 0, args.partial_epochs) = alone.outputs
           /\ Slice(ret.parameters, 0, args.partial_epochs) = alone.parameters

\* The coordinates perturbed and evaluated in epoch e.
Evaluated(e) == {i \in Coords : log.points[e][i] # Empty}

\* C12: in every epoch of a partial descent, a coordinate outside the drawn
\* subset has a gradient estimate of exactly 0, and the velocity the update
\* adds to it is momentum times the velocity the driver holds.
C12_UnselectedGradientZero ==
    (InRun /\ IsPartial) =>
        \A e \in DOMAIN log.grad : \A i \in Coords \ Range(log.drawn[e]) :
            /\ log.grad[e][i] = 0
            /\ log.vel[e][i] = args.momentum * velocity[i]

\* C13: in every epoch of a partial descent the coordinates perturbed and
\* evaluated are exactly the indices of param_idx, and param_idx has been
\* drawn from the generator in that epoch.
C13_EvaluatedIsDrawn ==
    (InRun /\ IsPartial) =>
        \A e \in DOMAIN log.points :
            /\ Evaluated(e) \subseteq Range(log.drawn[e])
            /\ e \in DOMAIN log.grad => Evaluated(e) = Range(log.drawn[e])
            /\ log.fresh[e]

\* ---------------------------------------------- the worker-pool strategy
\* Full and partial descent of the interpreted backend with threads > 1.
PoolInit ==
    /\ Init
    /\ args.backend = "python"
    /\ args.threads > 1
    /\ args.fn \in {"descent", "partial_descent"}

PoolNext ==
    \/ Enter
    \/ Draw
    \/ Submit
    \/ \E k \in 0 .. NParams : Worker(k)
    \/ Collect
    \/ DoUpdate
    \/ Return

PoolSpec == PoolInit /\ [][PoolNext]_vars

\* Full descent alone on the worker pool.
PoolDescentInit ==
    /\ PoolInit
    /\ args.fn = "descent"

PoolDescentNext ==
    \/ Enter
    \/ Submit
    \/ \E k \in 0 .. NParams : Worker(k)
    \/ Collect
    \/ DoUpdate
    \/ Return

PoolDescentSpec == PoolDescentInit /\ [][PoolDescentNext]_vars

\* C14: in the parallel strategy an epoch's update is computed only when
\* every evaluation submitted for it has completed, and the next epoch's
\* points are built and submitted only after that update has been written
\* to parameters[epoch + 1].
C14_EpochBarrier ==
    (IsParallel /\ InRun) =>
        /\ pc # "wait" => pending = {}
        /\ pc = "update" =>
                /\ \A k \in DOMAIN submitted :
                        parallel_outputs[k] = Objective(submitted[k])
                /\ outputs[epoch] = Objective(log.base[epoch])
        /\ pc \in {"draw", "submit"} =>
                /\ Size(log.base) = epoch
                /\ Size(log.next) = epoch
                /\ epoch > 0 => parameters[epoch] = Last(log.next)
        /\ pc = "wait" =>
                /\ Size(log.base) = epoch + 1
                /\ Size(log.next) = epoch
                /\ submitted[0] = parameters[epoch]
                /\ epoch > 0 => parameters[epoch] = Last(log.next)

\* The second epoch's tasks are running in the pool.
C14_SecondEpochInPool ==
    IsParallel /\ pc = "wait" /\ epoch = 1 /\ pending # {}


\* The coordinate perturbed in the k-th submitted point (k >= 1).
SubmittedCoord(k) == IF IsPartial THEN param_idx[k - 1] ELSE k - 1

\* C15: in the parallel strategy a finished task's result is stored under
\* its submission index whatever the completion order; the result of
\* submission 0 becomes the epoch's base output, the result of submission
\* k >= 1 becomes the difference objective of the coordinate perturbed in the
\* k-th point, and so the difference objective the update uses is determined
\* by the epoch's base point, step and subset alone.
C15_SubmissionOrderMapping ==
    (IsParallel /\ InRun) =>
        /\ pc = "wait" =>
                /\ \A k \in DOMAIN submitted \ pending :
                        parallel_outputs[k] = Objective(submitted[k])
                /\ \A k \in DOMAIN submitted \ {0} :
                        submitted[k] = Perturb(parameters[epoch],
                                               SubmittedCoord(k), call.h[epoch])
        /\ pc = "update" =>
                /\ outputs[epoch] = Objective(submitted[0])
                /\ \A k \in DOMAIN submitted \ {0} :
                        difference_objective[SubmittedCoord(k)] =
                            Objective(submitted[k])[0]
                /\ difference_objective =
                        [i \in Coords |->
                            IF IsPartial /\ i \notin Range(param_idx)
                            THEN Objective(parameters[epoch])[0]
                            ELSE Objective(Perturb(parameters[epoch], i,
                                                   call.h[epoch]))[0]]

\* Partial descent with the subset drawn in descending order, where the
\* last submitted task has finished before the first two.
C15_LastTaskFinishedFirst ==
    /\ IsParallel
    /\ IsPartial
    /\ pc = "wait"
    /\ Size(param_idx) > 1
    /\ param_idx[0] > param_idx[1]
    /\ pending = {0, 1}


\* C16: the evaluations of an epoch that run concurrently share no mutable
\* state.  On the worker pool every submitted point is the epoch's base
\* point with one coordinate incremented and the base row stays as it was;
\* in the compiled parallel loop the vector an unfinished iteration works on
\* differs from the epoch's base point in no coordinate but its own.
C16_NoSharedMutableState ==
    /\ (IsParallel /\ pc = "wait") =>
            /\ parameters[epoch] = log.base[epoch]
            /\ submitted[0] = log.base[epoch]
            /\ \A k \in DOMAIN submitted \ {0} :
                    submitted[k] = Perturb(log.base[epoch], SubmittedCoord(k),
                                           call.h[epoch])
    /\ (IsNumba /\ pc = "prange") =>
            \A i \in pending : \A j \in Coords \ {i} :
                parameters[epoch][j] = log.base[epoch][j]


\* ------------------------------- partial descent of the compiled backend
NumbaPartialInit ==
    /\ Init
    /\ args.backend = "numba"
    /\ args.fn = "partial_descent"

NumbaPartialNext ==
    \/ Enter
    \/ NumbaRedraw
    \/ EvalBase
    \/ \E i \in Coords : NumbaWrite(i)
    \/ \E i \in Coords : NumbaEval(i)
    \/ NumbaJoin
    \/ DoUpdate
    \/ Return

\* A pass of the sampling loop whose draw has no repeated index.
DistinctRedraw == NumbaRedraw /\ ~HasDuplicates(param_idx')

\* The interpreter keeps executing and the objective always returns (weak
\* fairness of the steps); the generator does not yield repeated indices
\* for ever (weak fairness of the distinct draw, which stays enabled for as
\* long as the sampling loop runs).
FairNumbaPartialSpec ==
    /\ NumbaPartialInit
    /\ [][NumbaPartialNext]_vars
    /\ WF_vars(NumbaPartialNext)
    /\ WF_vars(DistinctRedraw)

\* The base point of the epoch is beyond the values the model follows.
OutOfRange == InRun /\ pc # "return" /\ ~Evaluable(parameters[epoch])

\* C17: every partial-descent run of the compiled backend (with
\* 0 < parameters_used <= n_parameters) reaches Completed, unless it leaves
\* the range of values followed; the sampling loop of every epoch exits; the
\* epoch counter only ever advances by one, and at Completed exactly
\* `epochs` epochs have been evaluated.
C17_PartialDescentCompletes ==
    /\ <>(Completed \/ OutOfRange)
    /\ (pc = "draw") ~> (pc # "draw" \/ OutOfRange)
    /\ [](Completed =>
            /\ epoch = args.epochs
            /\ DOMAIN log.base = 0 .. (args.epochs - 1)
            /\ DOMAIN log.next = 0 .. (args.epochs - 1))
    /\ [][epoch' = epoch \/ epoch' = epoch + 1]_vars

\* A run of MaxEpochs epochs has completed, each epoch with a subset taken
\* from the generator by the sampling loop.
C17_CompletedAfterRedraws ==
    /\ Completed
    /\ IsNumba
    /\ IsPartial
    /\ epoch = MaxEpochs
    /\ \A e \in DOMAIN log.fresh : log.fresh[e]

=============================================================================
